---------------------------- MODULE Spec2Model ----------------------------
(***************************************************************************)
(* The rules engine of game_2048.py: the slide/merge engine (_move_left    *)
(* and its reverse/transpose generalisation), the spawn engine, the        *)
(* Game2048 state machine and the score ledger with its persisted store.   *)
(*                                                                         *)
(* Grids are functions over 0 .. GRID_SIZE-1 (the code's indices); Python  *)
(* lists built by append are sequences; an Optional is <<>> (None) or a    *)
(* non-empty tuple.                                                        *)
(***************************************************************************)
EXTENDS Integers, Sequences, FiniteSets, TLC

GRID_SIZE == 4

WIN_VALUE == 2048

Idx == 0 .. (GRID_SIZE - 1)

DIRECTIONS == {"LEFT", "RIGHT", "UP", "DOWN"}

None == << >>

ZeroRow == [c \in Idx |-> 0]

ZeroBoard == [r \in Idx |-> ZeroRow]

(***************************************************************************)
(* Grid primitives.                                                        *)
(***************************************************************************)
reverse(row) == [c \in Idx |-> row[GRID_SIZE - 1 - c]]

transpose(board) == [r \in Idx |-> [c \in Idx |-> board[c][r]]]

ReverseRows(board) == [r \in Idx |-> reverse(board[r])]

(***************************************************************************)
(* TileMove and the two movement transforms.                               *)
(***************************************************************************)
TileMove(start, end, value, merged) ==
    [start |-> start, end |-> end, value |-> value, merged |-> merged]

(* Mutant: the end cell is not mirrored.                                    *)
_mirror_horizontal_StartOnly(move) ==
    TileMove(<<move.start[1], GRID_SIZE - 1 - move.start[2]>>,
             move.end, move.value, move.merged)

_mirror_horizontal(move) ==
    TileMove(<<move.start[1], GRID_SIZE - 1 - move.start[2]>>,
             <<move.end[1], GRID_SIZE - 1 - move.end[2]>>,
             move.value, move.merged)

_transpose_move(move) ==
    TileMove(<<move.start[2], move.start[1]>>,
             <<move.end[2], move.end[1]>>,
             move.value, move.merged)

MirrorMoves(moves) == [i \in 1 .. Len(moves) |-> _mirror_horizontal(moves[i])]

TransposeMoves(moves) == [i \in 1 .. Len(moves) |-> _transpose_move(moves[i])]

(***************************************************************************)
(* _move_left, one row: the list non_zero of (value, r, c), then the while *)
(* loop over idx with the write cursor target.                             *)
(***************************************************************************)
RECURSIVE NonZeroFrom(_, _, _)
NonZeroFrom(row, r, c) ==
    IF c >= GRID_SIZE THEN << >>
    ELSE (IF row[c] # 0 THEN << <<row[c], r, c>> >> ELSE << >>)
         \o NonZeroFrom(row, r, c + 1)

NonZero(row, r) == NonZeroFrom(row, r, 0)

(* Mutant: the bound check is off by one, so the last pair never merges.   *)
CanMergeNext_OffByOne(non_zero, idx) ==
    /\ idx + 2 < Len(non_zero)
    /\ non_zero[idx + 2][1] = non_zero[idx + 1][1]

CanMergeNext(non_zero, idx) ==
    /\ idx + 1 < Len(non_zero)
    /\ non_zero[idx + 2][1] = non_zero[idx + 1][1]

(* Mutant: the merged tile is the square of the value, not its double.     *)
MergedValue_Square(value) == value * value

(* Mutant: a merge triples the value.                                       *)
MergedValue_Triple(value) == value * 3

(* Mutant: a merge adds 2 to the value.                                     *)
MergedValue_PlusTwo(value) == value + 2

MergedValue(value) == value * 2

RECURSIVE MergeLoop(_, _, _, _, _)
MergeLoop(non_zero, r, idx, target, acc) ==
    IF idx >= Len(non_zero) THEN acc
    ELSE
      LET value == non_zero[idx + 1][1]
          sr == non_zero[idx + 1][2]
          sc == non_zero[idx + 1][3]
          dest_col == target
      IN  IF CanMergeNext(non_zero, idx)
          THEN LET next_value == non_zero[idx + 2][1]
                   nr == non_zero[idx + 2][2]
                   nc == non_zero[idx + 2][3]
                   merged_value == MergedValue(value)
               IN  MergeLoop(non_zero, r, idx + 2, target + 1,
                     [new_row |-> [acc.new_row EXCEPT ![dest_col] = merged_value],
                      gain |-> acc.gain + merged_value,
                      moves |-> acc.moves \o
                        << TileMove(<<sr, sc>>, <<r, dest_col>>, value, TRUE),
                           TileMove(<<nr, nc>>, <<r, dest_col>>, next_value, TRUE) >>])
          ELSE MergeLoop(non_zero, r, idx + 1, target + 1,
                     [new_row |-> [acc.new_row EXCEPT ![dest_col] = value],
                      gain |-> acc.gain,
                      moves |-> acc.moves \o
                        << TileMove(<<sr, sc>>, <<r, dest_col>>, value, FALSE) >>])

SlideRow(row, r) ==
    MergeLoop(NonZero(row, r), r, 0, 0,
              [new_row |-> ZeroRow, gain |-> 0, moves |-> << >>])

MoveResult(board, score_gain, moved, moves, spawn) ==
    [board |-> board, score_gain |-> score_gain, moved |-> moved,
     moves |-> moves, spawn |-> spawn]

(* Mutant: only the first cell of the row is compared.                     *)
RowChanged_FirstCell(new_row, row) == new_row[0] # row[0]

RowChanged(new_row, row) == new_row # row

(***************************************************************************)
(* _move_left, the whole board: the loop over the rows, which appends each *)
(* new_row to new_board, adds the row's gain to total_gain, sets moved     *)
(* when new_row differs from the row, and extends the list of moves.       *)
(***************************************************************************)
RECURSIVE RowLoop(_, _, _)
RowLoop(board, r, acc) ==
    IF r >= GRID_SIZE THEN acc
    ELSE
      LET row_result == SlideRow(board[r], r)
          new_row == row_result.new_row
      IN  RowLoop(board, r + 1,
            [new_board |-> [acc.new_board EXCEPT ![r] = new_row],
             total_gain |-> acc.total_gain + row_result.gain,
             moved |-> acc.moved \/ RowChanged(new_row, board[r]),
             moves |-> acc.moves \o row_result.moves])

_move_left(board) ==
    LET done == RowLoop(board, 0,
                  [new_board |-> ZeroBoard, total_gain |-> 0,
                   moved |-> FALSE, moves |-> << >>])
    IN  MoveResult(done.new_board, done.total_gain, done.moved, done.moves,
                   None)

(***************************************************************************)
(* move, lines 172-191: the outcome for one of the four directions.        *)
(***************************************************************************)
MoveRight(board) ==
    LET flipped == ReverseRows(board)
        result == _move_left(flipped)
    IN  [result EXCEPT !.board = ReverseRows(result.board),
                       !.moves = MirrorMoves(result.moves)]

MoveUp(board) ==
    LET transposed == transpose(board)
        result == _move_left(transposed)
    IN  [result EXCEPT !.board = transpose(result.board),
                       !.moves = TransposeMoves(result.moves)]

(* Mutant: the rows are not reversed back before transposing back.         *)
MoveDown_NoUnflip(board) ==
    LET transposed == transpose(board)
        flipped == ReverseRows(transposed)
        result == _move_left(flipped)
        mirrored == MirrorMoves(result.moves)
    IN  [result EXCEPT !.board = transpose(result.board),
                       !.moves = TransposeMoves(mirrored)]

MoveDown(board) ==
    LET transposed == transpose(board)
        flipped == ReverseRows(transposed)
        result == _move_left(flipped)
        unflipped == ReverseRows(result.board)
        mirrored == MirrorMoves(result.moves)
    IN  [result EXCEPT !.board = transpose(unflipped),
                       !.moves = TransposeMoves(mirrored)]

MoveEngine(board, direction) ==
    IF direction = "LEFT" THEN _move_left(board)
    ELSE IF direction = "RIGHT" THEN MoveRight(board)
    ELSE IF direction = "UP" THEN MoveUp(board)
    ELSE MoveDown(board)

(***************************************************************************)
(* _can_move.                                                              *)
(***************************************************************************)
(* Mutant: the loop over the columns is missing.                           *)
_can_move_RowsOnly(board) ==
    \/ \E r \in Idx : \E c \in Idx : board[r][c] = 0
    \/ \E r \in Idx : \E c \in 0 .. (GRID_SIZE - 2) : board[r][c] = board[r][c + 1]

_can_move(board) ==
    \/ \E r \in Idx : \E c \in Idx : board[r][c] = 0
    \/ \E r \in Idx : \E c \in 0 .. (GRID_SIZE - 2) : board[r][c] = board[r][c + 1]
    \/ \E c \in Idx : \E r \in 0 .. (GRID_SIZE - 2) : board[r][c] = board[r + 1][c]


(***************************************************************************)
(* _spawn_tile: the empty cells, and the board with one tile placed.  The  *)
(* cell is random.choice(empty_cells) and the value is 4 or 2 by           *)
(* random.random(): both are choices of the caller's \E.                   *)
(***************************************************************************)
EmptyCells(b) == {rc \in Idx \X Idx : b[rc[1]][rc[2]] = 0}

SPAWN_VALUES == {2, 4}

(* Mutant: the tile is written one column further (wrapping round).       *)
PlaceTile_NextColumn(b, r, c, value) ==
    [b EXCEPT ![r][(c + 1) % GRID_SIZE] = value]

PlaceTile(b, r, c, value) == [b EXCEPT ![r][c] = value]

(***************************************************************************)
(* JSON as json.dump writes and json.load reads it: an int is its sign and *)
(* its decimal digits, most significant first.  A field of the stored      *)
(* object is an int, null, a string that is not a number, or absent.       *)
(***************************************************************************)
RECURSIVE Digits(_)
Digits(n) == IF n < 10 THEN << n >> ELSE Append(Digits(n \div 10), n % 10)

RECURSIVE FromDigits(_)
FromDigits(d) ==
    IF Len(d) = 0 THEN 0
    ELSE FromDigits(SubSeq(d, 1, Len(d) - 1)) * 10 + d[Len(d)]

JsonInt(n) ==
    [type |-> "int", negative |-> n < 0,
     digits |-> Digits(IF n < 0 THEN 0 - n ELSE n)]

JsonNull == [type |-> "null", negative |-> FALSE, digits |-> << >>]

JsonText == [type |-> "text", negative |-> FALSE, digits |-> << >>]

JsonAbsent == [type |-> "absent", negative |-> FALSE, digits |-> << >>]

NoError == "none"

(* int(data.get(key, 0)): the value, or the exception int() raises.        *)
FieldInt(v) ==
    CASE v.type = "int" ->
           [value |-> IF v.negative THEN 0 - FromDigits(v.digits)
                      ELSE FromDigits(v.digits),
            error |-> NoError]
      [] v.type = "absent" -> [value |-> 0, error |-> NoError]
      [] v.type = "text" -> [value |-> 0, error |-> "ValueError"]
      [] v.type = "null" -> [value |-> 0, error |-> "TypeError"]

(***************************************************************************)
(* The score store (score_state.json) as load_score_state sees it: absent, *)
(* not readable, not parseable as JSON, JSON that is not an object (a      *)
(* list, a number, null), or a JSON object with its two fields.            *)
(***************************************************************************)
StoreObject(best_field, total_field) ==
    [kind |-> "ok", best_score |-> best_field, total_score |-> total_field]

StoreMissing == [StoreObject(JsonAbsent, JsonAbsent) EXCEPT !.kind = "missing"]

StoreUnreadable == [StoreObject(JsonAbsent, JsonAbsent) EXCEPT !.kind = "unreadable"]

StoreNotJson == [StoreObject(JsonAbsent, JsonAbsent) EXCEPT !.kind = "not_json"]

StoreNotObject == [StoreObject(JsonAbsent, JsonAbsent) EXCEPT !.kind = "not_object"]

StoreOk(best, total) == StoreObject(JsonInt(best), JsonInt(total))

(* What the body of the try raises, NoError if it returns.                 *)
LoadError(st) ==
    CASE st.kind = "unreadable" -> "OSError"
      [] st.kind = "not_json" -> "JSONDecodeError"
      [] st.kind = "not_object" -> "AttributeError"
      [] st.kind = "ok" ->
           IF FieldInt(st.best_score).error # NoError
           THEN FieldInt(st.best_score).error
           ELSE FieldInt(st.total_score).error

(* except (OSError, json.JSONDecodeError, ValueError)                      *)
LoadCaught(error) == error \in {"OSError", "JSONDecodeError", "ValueError"}

(* Mutant: the fields are read back in each other's place.                 *)
load_score_state_Swapped(st) ==
    IF st.kind = "missing"
    THEN [best_score |-> 0, total_score |-> 0, raised |-> NoError]
    ELSE IF LoadError(st) = NoError
         THEN [best_score |-> FieldInt(st.total_score).value,
               total_score |-> FieldInt(st.best_score).value,
               raised |-> NoError]
         ELSE IF LoadCaught(LoadError(st))
              THEN [best_score |-> 0, total_score |-> 0, raised |-> NoError]
              ELSE [best_score |-> 0, total_score |-> 0, raised |-> LoadError(st)]

load_score_state(st) ==
    IF st.kind = "missing"
    THEN [best_score |-> 0, total_score |-> 0, raised |-> NoError]
    ELSE IF LoadError(st) = NoError
         THEN [best_score |-> FieldInt(st.best_score).value,
               total_score |-> FieldInt(st.total_score).value,
               raised |-> NoError]
         ELSE IF LoadCaught(LoadError(st))
              THEN [best_score |-> 0, total_score |-> 0, raised |-> NoError]
              ELSE [best_score |-> 0, total_score |-> 0, raised |-> LoadError(st)]

(***************************************************************************)
(* save_score_state: the write succeeds, or raises OSError before the file *)
(* is opened (store as it was) or after open() truncated it (no longer     *)
(* JSON).  SaveCaught is its except clause.                                *)
(***************************************************************************)
save_score_state(st, best, total) ==
    { [store |-> StoreOk(best, total), error |-> NoError],
      [store |-> st, error |-> "OSError"],
      [store |-> StoreNotJson, error |-> "OSError"] }

(* Mutant: the except clause catches nothing.                              *)
SaveCaught_Nothing(error) == FALSE

SaveCaught(error) == error = "OSError"

(***************************************************************************)
(* _apply_score_gain: the ledger after a gain, and whether a save is       *)
(* requested.  score is the session score with the gain already added.     *)
(***************************************************************************)
(* Mutant: best_score is set to the session score without the comparison.  *)
_apply_score_gain_NoCompare(gain, new_score, best, total) ==
    IF gain <= 0
    THEN [best_score |-> best, total_score |-> total, save |-> FALSE]
    ELSE [best_score |-> new_score,
          total_score |-> total + gain,
          save |-> TRUE]

(* Mutant: total_score is replaced by the gain instead of growing by it.    *)
_apply_score_gain_TotalIsGain(gain, new_score, best, total) ==
    IF gain <= 0
    THEN [best_score |-> best, total_score |-> total, save |-> FALSE]
    ELSE [best_score |-> IF new_score > best THEN new_score ELSE best,
          total_score |-> gain,
          save |-> TRUE]

(* Mutant: the gain is recorded and saved whatever its sign.                *)
_apply_score_gain_NoGuard(gain, new_score, best, total) ==
    [best_score |-> IF new_score > best THEN new_score ELSE best,
     total_score |-> total + gain,
     save |-> TRUE]

_apply_score_gain(gain, new_score, best, total) ==
    IF gain <= 0
    THEN [best_score |-> best, total_score |-> total, save |-> FALSE]
    ELSE [best_score |-> IF new_score > best THEN new_score ELSE best,
          total_score |-> total + gain,
          save |-> TRUE]

(* Mutant: the comparison with the target is strict.                       *)
HasWinningTile_Strict(b) == \E r \in Idx : \E c \in Idx : b[r][c] > WIN_VALUE

HasWinningTile(b) == \E r \in Idx : \E c \in Idx : b[r][c] >= WIN_VALUE

(* Mutant: the token is not checked, so any other token falls through to   *)
(* the else branch (DOWN).                                                 *)
IsDirection_Unchecked(direction) == TRUE

IsDirection(direction) == direction \in DIRECTIONS

(* Mutant: the moved flag is not consulted.                                *)
Rejected_Never(res) == FALSE

Rejected(res) == ~res.moved

WonAfter(was_won, b) == was_won \/ HasWinningTile(b)

(* game_over after a move: before is the slid board, after the board with  *)
(* the spawned tile.                                                       *)
(* Mutant: the check runs on the slid board, before the spawn.             *)
IsOver_BeforeSpawn(before, after) == ~_can_move(before)

(* Mutant: a winning tile ends the game.                                    *)
IsOver_OrWon(before, after) == ~_can_move(after) \/ HasWinningTile(after)

IsOver(before, after) == ~_can_move(after)

(***************************************************************************)
(* Bounds of the exploration.                                              *)
(***************************************************************************)
MaxSteps == 2

(* A token outside the four directions.                                    *)
INVALID_TOKEN == "NORTH"

COMMANDS == DIRECTIONS \cup {INVALID_TOKEN}

VARIABLES
    board,          \* Game2048.board
    score,          \* Game2048.score, the session score
    best_score,     \* Game2048.best_score
    total_score,    \* Game2048.total_score
    game_over,      \* Game2048.game_over
    won,            \* Game2048.won
    last_spawn,     \* Game2048.last_spawn: None or <<r, c, value>>
    store,          \* the content of score_state.json
    op,             \* the last command: "INIT", "MIDGAME", "RESET" or move's token
    result,         \* what the last command returned: None or <<MoveResult>>
    save_requested, \* whether the last command called save_score_state
    save_failed,    \* whether that call raised (and swallowed) an error
    raised,         \* the exception the last command let escape, or NoError
    move_animation, \* GameApp.move_animation: None or <<the animated moves>>
    steps_left      \* the budget of accepted moves and resets still explored

game == <<board, score, best_score, total_score, game_over, won, last_spawn>>

vars == <<board, score, best_score, total_score, game_over, won, last_spawn,
          store, op, result, save_requested, save_failed, raised,
          move_animation, steps_left>>

(***************************************************************************)
(* _spawn_tile: every outcome of one call on board b, with last_spawn ls   *)
(* before it.                                                              *)
(***************************************************************************)
(* Mutant: nothing is ever spawned.                                         *)
_spawn_tile_Never(b, ls) == {[board |-> b, last_spawn |-> ls, ret |-> None]}

_spawn_tile(b, ls) ==
    IF EmptyCells(b) = {}
    THEN {[board |-> b, last_spawn |-> ls, ret |-> None]}
    ELSE {[board |-> PlaceTile(b, rc[1], rc[2], value),
           last_spawn |-> <<rc[1], rc[2], value>>,
           ret |-> <<rc[1], rc[2], value>>]
          : rc \in EmptyCells(b), value \in SPAWN_VALUES}

(***************************************************************************)
(* reset: the empty board, then two spawns.                                *)
(***************************************************************************)
(* Mutant: reset spawns one tile only.                                     *)
ResetOutcomes_OneSpawn == _spawn_tile(ZeroBoard, None)

ResetOutcomes ==
    UNION {_spawn_tile(first.board, first.last_spawn)
           : first \in _spawn_tile(ZeroBoard, None)}

(***************************************************************************)
(* The stores a game is constructed over.                                  *)
(***************************************************************************)
InitStores == {StoreMissing, StoreOk(100, 500)}

(***************************************************************************)
(* States of games in progress, each recorded from a run of game_2048.py   *)
(* that started without a store and whose saves succeeded: two moves       *)
(* before the first 2048 tile, two moves before a game over without a      *)
(* win, two moves before a game over after a win, and the game over that   *)
(* run ended in.                                                           *)
(***************************************************************************)
Grid(r0, r1, r2, r3) ==
    LET rows == <<r0, r1, r2, r3>>
    IN  [r \in Idx |-> [c \in Idx |-> rows[r + 1][c + 1]]]

MidGame(b, s, ls, w, o) ==
    [board |-> b, score |-> s, last_spawn |-> ls, won |-> w, game_over |-> o]

MidGameStates ==
    { MidGame(Grid(<<4, 0, 8, 4>>, <<8, 1024, 128, 16>>,
                   <<4, 512, 512, 32>>, <<8, 32, 128, 4>>), 16892, <<0, 0, 4>>,
              FALSE, FALSE),
      MidGame(Grid(<<4, 2, 8, 4>>, <<2, 64, 1024, 16>>,
                   <<4, 64, 8, 2>>, <<2, 0, 16, 2>>), 8788, <<3, 0, 2>>,
              FALSE, FALSE),
      MidGame(Grid(<<4, 2, 4, 0>>, <<8, 8, 128, 16>>,
                   <<4, 2048, 32, 8>>, <<8, 32, 128, 4>>), 19972, <<0, 1, 2>>,
              TRUE, FALSE),
      MidGame(Grid(<<4, 2, 4, 16>>, <<16, 128, 8, 2>>,
                   <<4, 2048, 32, 4>>, <<8, 32, 128, 2>>), 19988, <<1, 3, 2>>,
              TRUE, TRUE) }

(***************************************************************************)
(* __init__ (load, then reset), or a game in progress.                     *)
(***************************************************************************)
InitConstructed ==
    /\ store \in InitStores
    /\ best_score = load_score_state(store).best_score
    /\ total_score = load_score_state(store).total_score
    /\ score = 0
    /\ game_over = FALSE
    /\ won = FALSE
    /\ \E s \in ResetOutcomes :
         /\ board = s.board
         /\ last_spawn = s.last_spawn
    /\ op = "INIT"
    /\ result = None
    /\ save_requested = FALSE
    /\ save_failed = FALSE
    /\ raised = NoError
    /\ move_animation = None
    /\ steps_left = MaxSteps

InitMidGame ==
    /\ \E g \in MidGameStates :
         /\ board = g.board
         /\ score = g.score
         /\ best_score = g.score
         /\ total_score = g.score
         /\ last_spawn = g.last_spawn
         /\ store = StoreOk(g.score, g.score)
         /\ game_over = g.game_over
         /\ won = g.won
    /\ op = "MIDGAME"
    /\ result = None
    /\ save_requested = FALSE
    /\ save_failed = FALSE
    /\ raised = NoError
    /\ move_animation = None
    /\ steps_left = MaxSteps

Init == InitConstructed \/ InitMidGame

(***************************************************************************)
(* move(direction).  The returned MoveResult is kept without its moves     *)
(* list, which is MoveEngine(board, direction).moves of the state before.  *)
(* Its board is the list that line 196 makes the game's board, so the      *)
(* spawn of line 203 writes into it: it is the board after the spawn.      *)
(***************************************************************************)
Returned(res, spawned) ==
    << [board |-> spawned.board, score_gain |-> res.score_gain,
        moved |-> res.moved, spawn |-> spawned.ret] >>

(***************************************************************************)
(* The budget: an accepted move or a reset uses one unit, and a move       *)
(* accepted on the board of a new session (two tiles, fourteen empty       *)
(* cells, about a hundred outcomes) uses all that is left.  A command      *)
(* without effect leaves the game as it was, so the run is not explored    *)
(* beyond it.                                                              *)
(***************************************************************************)
NewSession ==
    /\ score = 0
    /\ Cardinality(EmptyCells(board)) = GRID_SIZE * GRID_SIZE - 2

MoveCost == IF NewSession THEN steps_left ELSE 1

Explored == ~(op \in COMMANDS /\ result = None)

NoEffect ==
    /\ result' = None
    /\ save_requested' = FALSE
    /\ save_failed' = FALSE
    /\ raised' = NoError
    /\ UNCHANGED <<game, store, move_animation, steps_left>>

(* Lines 196-198 of an accepted move: the ledger, and every outcome of the  *)
(* save it requests.                                                       *)
SaveOutcomes(ledger) ==
    IF ledger.save
    THEN save_score_state(store, ledger.best_score, ledger.total_score)
    ELSE {[store |-> store, error |-> NoError]}

Escapes(o) == o.error # NoError /\ ~SaveCaught(o.error)

Accept(res) ==
    LET new_score == score + res.score_gain
        ledger == _apply_score_gain(res.score_gain, new_score,
                                    best_score, total_score)
    IN  /\ steps_left > 0
        /\ steps_left' = steps_left - MoveCost
        /\ UNCHANGED move_animation
        /\ score' = new_score
        /\ best_score' = ledger.best_score
        /\ total_score' = ledger.total_score
        /\ save_requested' = ledger.save
        /\ \E o \in SaveOutcomes(ledger) :
             /\ store' = o.store
             /\ save_failed' = (o.error # NoError)
             /\ IF Escapes(o)
                THEN \* the exception leaves move after line 198
                     /\ raised' = o.error
                     /\ board' = res.board
                     /\ result' = None
                     /\ UNCHANGED <<won, last_spawn, game_over>>
                ELSE /\ raised' = NoError
                     /\ won' = WonAfter(won, res.board)
                     /\ \E s \in _spawn_tile(res.board, last_spawn) :
                          /\ board' = s.board
                          /\ last_spawn' = s.last_spawn
                          /\ result' = Returned(res, s)
                          /\ game_over' = IsOver(res.board, s.board)

Move(direction) ==
    /\ Explored
    /\ raised = NoError
    /\ op' = direction
    /\ IF ~IsDirection(direction)
       THEN NoEffect
       ELSE LET res == MoveEngine(board, direction)
            IN  IF Rejected(res) THEN NoEffect ELSE Accept(res)

(***************************************************************************)
(* reset(), explored as the restart of a game that is over, and of the     *)
(* recorded games in progress; a restart of a game that is not over uses   *)
(* all of the budget.                                                      *)
(***************************************************************************)
ResetExplored == game_over \/ op = "MIDGAME"

ResetCost == IF game_over THEN 1 ELSE steps_left

Reset ==
    /\ Explored
    /\ raised = NoError
    /\ steps_left > 0
    /\ ResetExplored
    /\ steps_left' = steps_left - ResetCost
    /\ UNCHANGED move_animation
    /\ \E s \in ResetOutcomes :
         /\ board' = s.board
         /\ last_spawn' = s.last_spawn
    /\ score' = 0
    /\ game_over' = FALSE
    /\ won' = FALSE
    /\ op' = "RESET"
    /\ result' = None
    /\ save_requested' = FALSE
    /\ save_failed' = FALSE
    /\ raised' = NoError
    /\ UNCHANGED <<best_score, total_score, store>>

Next ==
    \/ \E direction \in COMMANDS : Move(direction)
    \/ Reset

Spec == Init /\ [][Next]_vars

(***************************************************************************)
(* The move engine alone: MoveEngine applied once, in each direction, to   *)
(* every grid of a bounded family.  A grid stacks two rows a and b in one  *)
(* of three ways: a is any row over 0 and the tiles 2 .. 2^MaxExp, b is a  *)
(* row of the tiles 2 and 4 without empty cells, or the empty row.  Every  *)
(* row shape occurs, and the columns hold gaps, pairs, double pairs, inner *)
(* pairs and triples.                                                      *)
(***************************************************************************)
MaxExp == 2

Tiles == {2 ^ k : k \in 1 .. MaxExp}

Rows == [Idx -> {0} \cup Tiles]

FullRows == [Idx -> SPAWN_VALUES]

Stackings ==
    { <<"a", "b", "a", "b">>, <<"a", "b", "b", "a">>, <<"a", "a", "a", "b">> }

Stack(a, b, how) ==
    [r \in Idx |-> IF how[(r % Len(how)) + 1] = "a" THEN a ELSE b]

InitEngine ==
    /\ \E a \in Rows, b \in FullRows \cup {ZeroRow}, how \in Stackings :
         board = Stack(a, b, how)
    /\ score = 0
    /\ best_score = 0
    /\ total_score = 0
    /\ game_over = FALSE
    /\ won = FALSE
    /\ last_spawn = None
    /\ store = StoreMissing
    /\ op = "INIT"
    /\ result = None
    /\ save_requested = FALSE
    /\ save_failed = FALSE
    /\ raised = NoError
    /\ move_animation = None
    /\ steps_left = 0

(* Mutant: every move is handed to the animation.                          *)
Animated_All(move) == TRUE

(* _start_move_animation: the moves kept for the slide animation, and the  *)
(* animation started from them (None when no move is kept).                *)
Animated(move) == move.start # move.end \/ move.merged

_start_move_animation(res) ==
    LET animated_moves == SelectSeq(res.moves, Animated)
    IN  IF animated_moves # << >> THEN << animated_moves >> ELSE None

(* The slide of a grid, and what _trigger_action hands to the animation    *)
(* when the slide moved (the outcome move returns, before the spawn).      *)
Slide(direction) ==
    /\ op = "INIT"
    /\ op' = direction
    /\ \E res \in {MoveEngine(board, direction)} :
         /\ result' = << res >>
         /\ move_animation' = IF res.moved THEN _start_move_animation(res)
                              ELSE move_animation
    /\ UNCHANGED <<game, store, save_requested, save_failed, raised, steps_left>>

NextEngine == \E direction \in DIRECTIONS : Slide(direction)

SpecEngine == InitEngine /\ [][NextEngine]_vars

(***************************************************************************)
(* Reference slides, written from the rules and not from the code: a line  *)
(* is the sequence of the values of a row or column; its tiles are the     *)
(* non-zero values in order; they are paired greedily from the edge the    *)
(* slide goes to, and the line is filled up with zeros.                    *)
(***************************************************************************)
(***************************************************************************)
(* Starting the program: before Game2048() is constructed the store holds  *)
(* whatever an earlier run or anybody else left in it.  Construct is       *)
(* __init__: load_score_state, then the fields, then reset; an exception   *)
(* that load_score_state lets escape ends it before any field is set.      *)
(***************************************************************************)
LoadStores ==
    { StoreMissing, StoreUnreadable, StoreNotJson, StoreNotObject,
      StoreOk(100, 500),
      StoreObject(JsonNull, JsonInt(3)),
      StoreObject(JsonText, JsonInt(3)),
      StoreObject(JsonInt(5), JsonAbsent) }

InitLoad ==
    /\ store \in LoadStores
    /\ board = ZeroBoard
    /\ score = 0
    /\ best_score = 0
    /\ total_score = 0
    /\ game_over = FALSE
    /\ won = FALSE
    /\ last_spawn = None
    /\ op = "START"
    /\ result = None
    /\ save_requested = FALSE
    /\ save_failed = FALSE
    /\ raised = NoError
    /\ move_animation = None
    /\ steps_left = 0

Construct ==
    /\ op = "START"
    /\ op' = "INIT"
    /\ LET state == load_score_state(store)
       IN  IF state.raised # NoError
           THEN /\ raised' = state.raised
                /\ UNCHANGED game
           ELSE /\ raised' = NoError
                /\ best_score' = state.best_score
                /\ total_score' = state.total_score
                /\ score' = 0
                /\ game_over' = FALSE
                /\ won' = FALSE
                /\ \E s \in ResetOutcomes :
                     /\ board' = s.board
                     /\ last_spawn' = s.last_spawn
    /\ UNCHANGED <<store, result, save_requested, save_failed, move_animation,
                   steps_left>>

NextLoad == Construct

SpecLoad == InitLoad /\ [][NextLoad]_vars

(***************************************************************************)
(* The spawn engine alone: _spawn_tile called once on every grid of the    *)
(* bounded family, full grids included.                                    *)
(***************************************************************************)
Spawn ==
    /\ op = "INIT"
    /\ op' = "SPAWN"
    /\ \E s \in _spawn_tile(board, last_spawn) :
         /\ board' = s.board
         /\ last_spawn' = s.last_spawn
         /\ result' = IF s.ret = None THEN None ELSE << s.ret >>
    /\ UNCHANGED <<score, best_score, total_score, game_over, won, store,
                   save_requested, save_failed, raised, move_animation,
                   steps_left>>

NextSpawn == Spawn

SpecSpawn == InitEngine /\ [][NextSpawn]_vars

IsTile(v) == v # 0

TilesOf(line) == SelectSeq(line, IsTile)

RECURSIVE PairFromStart(_)
PairFromStart(t) ==
    IF Len(t) = 0 THEN << >>
    ELSE IF Len(t) >= 2 /\ t[1] = t[2]
         THEN << t[1] + t[2] >> \o PairFromStart(SubSeq(t, 3, Len(t)))
         ELSE << t[1] >> \o PairFromStart(Tail(t))

RECURSIVE PairFromEnd(_)
PairFromEnd(t) ==
    LET n == Len(t)
    IN  IF n = 0 THEN << >>
        ELSE IF n >= 2 /\ t[n] = t[n - 1]
             THEN PairFromEnd(SubSeq(t, 1, n - 2)) \o << t[n] + t[n - 1] >>
             ELSE PairFromEnd(SubSeq(t, 1, n - 1)) \o << t[n] >>

RECURSIVE SumSeq(_)
SumSeq(t) == IF Len(t) = 0 THEN 0 ELSE Head(t) + SumSeq(Tail(t))

(* The gain of a line: the merged tiles' new values, that is what the      *)
(* pairing adds to the tiles that are at least twice a tile they replace.  *)
RECURSIVE GainFromStart(_)
GainFromStart(t) ==
    IF Len(t) < 2 THEN 0
    ELSE IF t[1] = t[2]
         THEN t[1] + t[2] + GainFromStart(SubSeq(t, 3, Len(t)))
         ELSE GainFromStart(Tail(t))

RECURSIVE GainFromEnd(_)
GainFromEnd(t) ==
    LET n == Len(t)
    IN  IF n < 2 THEN 0
        ELSE IF t[n] = t[n - 1]
             THEN t[n] + t[n - 1] + GainFromEnd(SubSeq(t, 1, n - 2))
             ELSE GainFromEnd(SubSeq(t, 1, n - 1))

ToStart(line) ==
    LET p == PairFromStart(TilesOf(line))
    IN  [i \in 1 .. Len(line) |-> IF i <= Len(p) THEN p[i] ELSE 0]

ToEnd(line) ==
    LET p == PairFromEnd(TilesOf(line))
        gap == Len(line) - Len(p)
    IN  [i \in 1 .. Len(line) |-> IF i > gap THEN p[i - gap] ELSE 0]

RowLine(b, r) == [i \in 1 .. GRID_SIZE |-> b[r][i - 1]]

ColLine(b, c) == [i \in 1 .. GRID_SIZE |-> b[i - 1][c]]

Direct(b, direction) ==
    [r \in Idx |-> [c \in Idx |->
        CASE direction = "LEFT"  -> ToStart(RowLine(b, r))[c + 1]
          [] direction = "RIGHT" -> ToEnd(RowLine(b, r))[c + 1]
          [] direction = "UP"    -> ToStart(ColLine(b, c))[r + 1]
          [] direction = "DOWN"  -> ToEnd(ColLine(b, c))[r + 1]]]

RECURSIVE SumOver(_, _)
SumOver(f, n) == IF n < 0 THEN 0 ELSE f[n] + SumOver(f, n - 1)

DirectGain(b, direction) ==
    SumOver([k \in Idx |->
        CASE direction = "LEFT"  -> GainFromStart(TilesOf(RowLine(b, k)))
          [] direction = "RIGHT" -> GainFromEnd(TilesOf(RowLine(b, k)))
          [] direction = "UP"    -> GainFromStart(TilesOf(ColLine(b, k)))
          [] direction = "DOWN"  -> GainFromEnd(TilesOf(ColLine(b, k)))],
        GRID_SIZE - 1)

(* Whether a slide changes a grid, from the rules: in some line, read from *)
(* the edge the slide goes to, a tile lies behind an empty cell, or behind *)
(* an equal tile with nothing but empty cells between them.                *)
LineToward(b, direction, k) ==
    [i \in 1 .. GRID_SIZE |->
        CASE direction = "LEFT"  -> b[k][i - 1]
          [] direction = "RIGHT" -> b[k][GRID_SIZE - i]
          [] direction = "UP"    -> b[i - 1][k]
          [] direction = "DOWN"  -> b[GRID_SIZE - i][k]]

LineChanges(line) ==
    \E i \in 1 .. Len(line) : \E j \in (i + 1) .. Len(line) :
        /\ line[j] # 0
        /\ \/ line[i] = 0
           \/ /\ line[i] = line[j]
              /\ \A k \in (i + 1) .. (j - 1) : line[k] = 0

SlideChanges(b, direction) ==
    \E k \in Idx : LineChanges(LineToward(b, direction, k))

Row4(a, b, c, d) ==
    LET t == <<a, b, c, d>> IN [i \in Idx |-> t[i + 1]]

Outcome == result[1]

Slid == result # None /\ op \in DIRECTIONS

(***************************************************************************)
(* C1: slide-left gives every row its reference result: the non-zero       *)
(* values compacted to the left in order and paired greedily from the      *)
(* left, no tile merged twice, zeros behind, and the gain is the sum of    *)
(* the merged tiles' new values; [2,2,2,0] gives [4,2,0,0] with gain 4 and *)
(* [4,0,4,4] gives [8,4,0,0] with gain 8.                                  *)
(***************************************************************************)
C1_SlideLeftIsReference ==
    (Slid /\ op = "LEFT") =>
        /\ Outcome.board = Direct(board, "LEFT")
        /\ Outcome.score_gain = DirectGain(board, "LEFT")
        /\ \A r \in Idx :
             /\ SlideRow(board[r], r).gain = GainFromStart(TilesOf(RowLine(board, r)))
             /\ board[r] = Row4(2, 2, 2, 0) =>
                  /\ Outcome.board[r] = Row4(4, 2, 0, 0)
                  /\ SlideRow(board[r], r).gain = 4
             /\ board[r] = Row4(4, 0, 4, 4) =>
                  /\ Outcome.board[r] = Row4(8, 4, 0, 0)
                  /\ SlideRow(board[r], r).gain = 8

C1_Witness ==
    /\ Slid
    /\ op = "LEFT"
    /\ board[0] = Row4(2, 2, 2, 0)
    /\ board[1] = Row4(4, 4, 4, 4)
    /\ board[3] = Row4(2, 2, 2, 0)
    /\ Outcome.board[0] = Row4(4, 2, 0, 0)
    /\ Outcome.board[1] = Row4(8, 8, 0, 0)
    /\ Outcome.score_gain = 4 + 16 + 16 + 4

(***************************************************************************)
(* C2: in each of the four directions the engine reports moved = false     *)
(* exactly when the resulting grid equals the input grid cell by cell      *)
(* (and that is when, by the rules, the slide changes no line).            *)
(***************************************************************************)
C2_MovedIffGridChanged ==
    Slid => /\ Outcome.moved = FALSE <=>
                 \A r \in Idx : \A c \in Idx : Outcome.board[r][c] = board[r][c]
            /\ Outcome.board # board <=> SlideChanges(board, op)

C2_Witness ==
    /\ Slid
    /\ op = "DOWN"
    /\ Outcome.moved = FALSE
    /\ Outcome.board = board
    /\ board # ZeroBoard
    /\ _can_move(board)

(***************************************************************************)
(* C3: the RIGHT, UP and DOWN outcomes of the reverse/transpose            *)
(* composition (grid, gain, moved) equal those of a direct slide of each   *)
(* row or column toward the right, top or bottom edge; DOWN is transpose,  *)
(* reverse rows, slide left, reverse rows, transpose back.                 *)
(***************************************************************************)
C3_DirectionsAgreeWithDirectSlide ==
    (Slid /\ op \in {"RIGHT", "UP", "DOWN"}) =>
        /\ Outcome.board = Direct(board, op)
        /\ Outcome.score_gain = DirectGain(board, op)
        /\ Outcome.moved = (Direct(board, op) # board)
        /\ op = "DOWN" =>
             Outcome.board =
               transpose(ReverseRows(Direct(ReverseRows(transpose(board)), "LEFT")))

C3_Witness ==
    /\ Slid
    /\ op = "DOWN"
    /\ Outcome.moved
    /\ Outcome.score_gain > 0
    /\ Outcome.board # Direct(board, "UP")
    /\ \E c \in Idx : ColLine(board, c) = <<2, 2, 2, 4>>
    /\ \E c \in Idx : ColLine(Outcome.board, c) = <<0, 2, 4, 4>>

(***************************************************************************)
(* C8 as stated: for every grid, the terminal check finds the game over    *)
(* (grid full, no two row- or column-adjacent cells equal) exactly when    *)
(* the engine reports moved = false in all four directions.                *)
(***************************************************************************)
FullAndStuck(b) ==
    /\ \A r \in Idx : \A c \in Idx : b[r][c] # 0
    /\ \A r \in Idx : \A c \in Idx :
         /\ c + 1 \in Idx => b[r][c] # b[r][c + 1]
         /\ r + 1 \in Idx => b[r][c] # b[r + 1][c]

NoDirectionMoves(b) == \A d \in DIRECTIONS : ~MoveEngine(b, d).moved

C8_Original_OverIffNoMoveAnyGrid ==
    /\ ~_can_move(board) <=> FullAndStuck(board)
    /\ FullAndStuck(board) <=> NoDirectionMoves(board)

(***************************************************************************)
(* C8, amended: the equivalence holds for every grid that holds at least   *)
(* one tile; on the empty grid no direction moves although it is not full. *)
(***************************************************************************)
C8_OverIffNoMoveNonEmptyGrid ==
    /\ ~_can_move(board) <=> FullAndStuck(board)
    /\ board # ZeroBoard => (FullAndStuck(board) <=> NoDirectionMoves(board))
    /\ (Slid /\ ~_can_move(board)) => ~Outcome.moved

C8_Witness ==
    /\ Slid
    /\ ~_can_move(board)
    /\ FullAndStuck(board)
    /\ ~Outcome.moved

(***************************************************************************)
(* The game: what a step is, and what it returned.                         *)
(***************************************************************************)
BoardSum(b) == SumOver([r \in Idx |-> SumOver(b[r], GRID_SIZE - 1)], GRID_SIZE - 1)

HasTarget(b) == \E r \in Idx : \E c \in Idx : b[r][c] >= 2048

MoveCommanded == op' \in COMMANDS

Accepted == result # None /\ op \in DIRECTIONS

GainOf(ret) == IF ret = None THEN 0 ELSE ret[1].score_gain

SpawnedOf(ret) ==
    IF ret = None THEN 0
    ELSE IF ret[1].spawn = None THEN 0 ELSE ret[1].spawn[3]

Larger(a, b) == IF a >= b THEN a ELSE b

(***************************************************************************)
(* C4 as stated: over any moves, the sum of the grid is the sum before     *)
(* plus the score gains plus the spawned values (move by move).            *)
(***************************************************************************)
C4_Original_SumPlusGainsPlusSpawns ==
    [][MoveCommanded =>
         BoardSum(board') = BoardSum(board) + GainOf(result') + SpawnedOf(result')]_vars

(***************************************************************************)
(* C4, amended: over any moves, the sum of the grid is the sum before plus *)
(* the spawned values; the score gains do not enter (a merge replaces two  *)
(* tiles v by one tile 2v).                                                *)
(***************************************************************************)
C4_SumPlusSpawns ==
    [][MoveCommanded =>
         BoardSum(board') = BoardSum(board) + SpawnedOf(result')]_vars

C4_Witness ==
    /\ Accepted
    /\ Outcome.score_gain > 0
    /\ Outcome.spawn # None
    /\ BoardSum(board) > Outcome.score_gain

(***************************************************************************)
(* C5: a rejected command changes nothing.  When move gets a token outside *)
(* the four directions, or a direction whose slide leaves the grid as it   *)
(* is, it returns None; grid, score, best_score, total_score, won,         *)
(* game_over and last_spawn stay, nothing is spawned, no save is requested.*)
(***************************************************************************)
C5_RejectedCommandChangesNothing ==
    [][(MoveCommanded /\ (op' \notin DIRECTIONS \/ ~SlideChanges(board, op')))
         => /\ result' = None
            /\ UNCHANGED <<board, score, best_score, total_score, won,
                           game_over, last_spawn, store>>
            /\ save_requested' = FALSE]_vars

C5_Witness ==
    /\ op \in DIRECTIONS
    /\ result = None
    /\ ~game_over
    /\ ~SlideChanges(board, op)
    /\ \E d \in DIRECTIONS : SlideChanges(board, d)

(***************************************************************************)
(* C6: an accepted move with gain g makes the grid the outcome's grid plus *)
(* the spawned tile and adds g to the session score; if g > 0 it adds g to *)
(* total_score and makes best_score the larger of the old best_score and   *)
(* the new session score; if g = 0 it leaves best_score and total_score.   *)
(***************************************************************************)
C6_AcceptedMoveEffect ==
    [][(MoveCommanded /\ result' # None) =>
         \E out \in {MoveEngine(board, op')} :
         \E g \in {out.score_gain} :
         \E sp \in {result'[1].spawn} :
             /\ op' \in DIRECTIONS
             /\ out.moved
             /\ result'[1].score_gain = g
             /\ sp # None
             /\ out.board[sp[1]][sp[2]] = 0
             /\ sp[3] \in {2, 4}
             /\ board' = [out.board EXCEPT ![sp[1]][sp[2]] = sp[3]]
             /\ score' = score + g
             /\ g > 0 => /\ total_score' = total_score + g
                         /\ best_score' = Larger(best_score, score')
             /\ g = 0 => UNCHANGED <<best_score, total_score>>]_vars

C6_Witness ==
    /\ Accepted
    /\ Outcome.score_gain > 0
    /\ best_score > score
    /\ total_score > best_score

(***************************************************************************)
(* C7: in every state of the game, game_over holds exactly when the grid,  *)
(* the last spawned tile included, has no empty cell and no two            *)
(* horizontally or vertically adjacent equal cells.                        *)
(***************************************************************************)
C7_GameOverIffFullAndStuck == game_over <=> FullAndStuck(board)

C7_Witness ==
    /\ Accepted
    /\ game_over
    /\ Outcome.spawn # None
    /\ ~won

(***************************************************************************)
(* C9: won latches.  A move keeps won once it is true; while it is false,  *)
(* a move makes it true exactly when it is accepted and leaves a cell of   *)
(* at least 2048; reset clears it.                                         *)
(***************************************************************************)
C9_WonLatches ==
    [][/\ (MoveCommanded /\ won) => won'
       /\ (MoveCommanded /\ ~won) => (won' <=> (result' # None /\ HasTarget(board')))
       /\ op' = "RESET" => ~won']_vars

C9_Witness ==
    /\ Accepted
    /\ won
    /\ Outcome.score_gain >= 2048
    /\ score < 19972

(***************************************************************************)
(* C10: a game over is terminal until the restart.  While game_over holds  *)
(* every move command is rejected and changes nothing; reset makes         *)
(* game_over false on a board that some direction changes, and such a      *)
(* direction is accepted again.                                            *)
(***************************************************************************)
C10_OverIsTerminalUntilReset ==
    [][/\ (MoveCommanded /\ game_over) =>
            /\ result' = None
            /\ UNCHANGED <<board, score, best_score, total_score, won,
                           game_over, last_spawn, store>>
       /\ op' = "RESET" =>
            /\ ~game_over'
            /\ \E d \in DIRECTIONS : SlideChanges(board', d)
       /\ (op = "RESET" /\ op' \in DIRECTIONS /\ SlideChanges(board, op')) =>
            /\ result' # None
            /\ board' # board]_vars

C10_Witness ==
    /\ game_over
    /\ op \in DIRECTIONS
    /\ result = None
    /\ FullAndStuck(board)

(***************************************************************************)
(* C11: won alone does not stop play.  While won holds and game_over does  *)
(* not, a direction whose slide changes the grid is accepted as ever: the  *)
(* grid becomes the slid grid plus one spawned tile, the gain is added to  *)
(* the score, game_over is recomputed from the new grid alone and won      *)
(* stays; won and game_over may then hold together.                        *)
(***************************************************************************)
C11_WonDoesNotStopPlay ==
    [][(MoveCommanded /\ won /\ ~game_over /\ op' \in DIRECTIONS
            /\ SlideChanges(board, op')) =>
         \E out \in {Direct(board, op')} :
             /\ result' # None
             /\ result'[1].spawn # None
             /\ \E sp \in {result'[1].spawn} :
                  /\ out[sp[1]][sp[2]] = 0
                  /\ board' = [out EXCEPT ![sp[1]][sp[2]] = sp[3]]
             /\ result'[1].score_gain = DirectGain(board, op')
             /\ score' = score + DirectGain(board, op')
             /\ game_over' = FullAndStuck(board')
             /\ won']_vars

C11_Witness ==
    /\ Accepted
    /\ won
    /\ game_over
    /\ score > 19972
    /\ Outcome.spawn # None

(***************************************************************************)
(* C12: the ledger over moves and resets, starting from a loaded ledger of *)
(* two non-negative integers: no step lowers total_score or best_score,    *)
(* reset changes neither and returns the session score to 0, and           *)
(* best_score is at least the session score in every state.                *)
(***************************************************************************)
C12_LedgerMonotone ==
    [][/\ total_score' >= total_score
       /\ best_score' >= best_score
       /\ op' = "RESET" => /\ UNCHANGED <<best_score, total_score>>
                           /\ score' = 0
       /\ best_score >= score
       /\ best_score' >= score'
       /\ best_score >= 0 /\ total_score >= 0]_vars

C12_Witness ==
    /\ Accepted
    /\ Outcome.score_gain > 0
    /\ score < best_score
    /\ best_score = 19988
    /\ total_score = 19988 + score

(***************************************************************************)
(* Whether a slide merges, from the rules: in some line along the          *)
(* direction two equal tiles have nothing but empty cells between them.    *)
(***************************************************************************)
Merges(b, direction) ==
    \E k \in Idx :
        \E line \in {LineToward(b, direction, k)} :
            \E i \in 1 .. GRID_SIZE : \E j \in (i + 1) .. GRID_SIZE :
                /\ line[i] # 0
                /\ line[i] = line[j]
                /\ \A m \in (i + 1) .. (j - 1) : line[m] = 0

NonPositiveGains == {0 - v : v \in SPAWN_VALUES} \cup {0}

(***************************************************************************)
(* C13: recording a gain that is 0 or negative leaves best_score and       *)
(* total_score as they are and requests no save, in every state of the     *)
(* game; so an accepted move that merges nothing leaves the ledger and the *)
(* score store as they are.                                                *)
(***************************************************************************)
C13_NoGainNoSave ==
    [][/\ \A g \in NonPositiveGains :
            \E l \in {_apply_score_gain(g, score + g, best_score, total_score)} :
                /\ l.best_score = best_score
                /\ l.total_score = total_score
                /\ l.save = FALSE
                /\ SaveOutcomes(l) = {[store |-> store, error |-> NoError]}
       /\ (MoveCommanded /\ result' # None /\ ~Merges(board, op')) =>
            /\ result'[1].score_gain = 0
            /\ UNCHANGED <<best_score, total_score, store>>
            /\ save_requested' = FALSE
            /\ save_failed' = FALSE]_vars

C13_Witness ==
    /\ Accepted
    /\ Outcome.score_gain = 0
    /\ ~save_requested
    /\ store = StoreOk(100, 500)
    /\ best_score = 100
    /\ total_score = 500

(***************************************************************************)
(* C14 as stated: loading never fails.  Constructing the game over a store *)
(* that is missing, unreadable or malformed (anything but an object with   *)
(* two integer fields) raises no error and gives the ledger 0, 0 and a     *)
(* playable game: two tiles, not over.                                     *)
(***************************************************************************)
Malformed(st) ==
    \/ st.kind # "ok"
    \/ st.best_score.type # "int"
    \/ st.total_score.type # "int"

C14_Original_LoadingNeverFails ==
    [][(op' = "INIT" /\ Malformed(store)) =>
         /\ raised' = NoError
         /\ best_score' = 0
         /\ total_score' = 0
         /\ ~game_over'
         /\ Cardinality(EmptyCells(board')) = GRID_SIZE * GRID_SIZE - 2]_vars

(***************************************************************************)
(* C15: a failed save is swallowed.  When the save of an accepted move     *)
(* fails, no exception leaves move and the move completes as the slide and *)
(* the spawn alone determine: grid, session score, best_score,             *)
(* total_score, won, game_over and spawn are what a successful save would  *)
(* have left; and the next command that changes the grid is accepted.      *)
(***************************************************************************)
C15_FailedSaveIsSwallowed ==
    [][/\ (MoveCommanded /\ save_failed') =>
            \E out \in {Direct(board, op')} :
            \E g \in {DirectGain(board, op')} :
                /\ raised' = NoError
                /\ result' # None
                /\ save_requested'
                /\ store' \in {store, StoreNotJson}
                /\ result'[1].spawn # None
                /\ last_spawn' = result'[1].spawn
                /\ \E sp \in {result'[1].spawn} :
                     board' = [out EXCEPT ![sp[1]][sp[2]] = sp[3]]
                /\ score' = score + g
                /\ total_score' = total_score + g
                /\ best_score' = Larger(best_score, score')
                /\ won' = (won \/ HasTarget(out))
                /\ game_over' = FullAndStuck(board')
       /\ MoveCommanded => raised' = NoError
       /\ (MoveCommanded /\ save_failed /\ op' \in DIRECTIONS
               /\ SlideChanges(board, op')) => result' # None]_vars

C15_Witness ==
    /\ Accepted
    /\ Outcome.score_gain = 0
    /\ ~save_failed
    /\ store = StoreNotJson
    /\ raised = NoError

(***************************************************************************)
(* The pairs saved and loaded back: every pair of values up to MaxSaved,   *)
(* and the pair 100, 500.                                                  *)
(***************************************************************************)
MaxSaved == 12

SavedValues == (0 .. MaxSaved) \cup {100, 500}

(***************************************************************************)
(* C16: the ledger round trip.  A save of two non-negative integers that   *)
(* succeeds, followed by a load, gives exactly that pair (so 100, 500);    *)
(* and after an accepted move with a positive gain whose save succeeded,   *)
(* loading the store gives the best_score and total_score in memory.       *)
(***************************************************************************)
C16_LedgerRoundTrip ==
    /\ op \in {"INIT", "MIDGAME"} =>
         \A best \in SavedValues : \A total \in SavedValues :
             \A o \in save_score_state(store, best, total) :
                 o.error = NoError =>
                     load_score_state(o.store) =
                         [best_score |-> best, total_score |-> total,
                          raised |-> NoError]
    /\ (Accepted /\ Outcome.score_gain > 0 /\ ~save_failed) =>
         /\ save_requested
         /\ load_score_state(store) =
              [best_score |-> best_score, total_score |-> total_score,
               raised |-> NoError]

C16_Witness ==
    /\ Accepted
    /\ Outcome.score_gain > 0
    /\ save_requested
    /\ ~save_failed
    /\ best_score = 100
    /\ total_score > 500
    /\ load_score_state(store).total_score = total_score

(***************************************************************************)
(* C17: reset, from any state (won or over or both included), leaves the   *)
(* session score 0, won and game_over false, and a grid with exactly two   *)
(* non-zero cells, each 2 or 4, all other cells 0; best_score and          *)
(* total_score are as before.                                              *)
(***************************************************************************)
TileCells(b) == (Idx \X Idx) \ EmptyCells(b)

C17_ResetStartsNewSession ==
    [][op' = "RESET" =>
         /\ score' = 0
         /\ ~won'
         /\ ~game_over'
         /\ Cardinality(TileCells(board')) = 2
         /\ \A rc \in TileCells(board') : board'[rc[1]][rc[2]] \in {2, 4}
         /\ last_spawn' # None
         /\ UNCHANGED <<best_score, total_score, store>>]_vars

C17_Witness ==
    /\ op = "RESET"
    /\ best_score = 19972
    /\ total_score = 19972
    /\ score = 0
    /\ ~won
    /\ \E rc \in TileCells(board) : board[rc[1]][rc[2]] = 4
    /\ \E rc \in TileCells(board) : board[rc[1]][rc[2]] = 2

(***************************************************************************)
(* C18: a spawn places exactly one tile.  On a grid with an empty cell it  *)
(* changes exactly one cell, that cell was 0, its new value is 2 or 4,     *)
(* every other cell stays, and the returned (row, col, value) names the    *)
(* cell and the value; on a grid without an empty cell it changes nothing  *)
(* and returns None.                                                       *)
(***************************************************************************)
ChangedCells(before, after) ==
    {rc \in Idx \X Idx : after[rc[1]][rc[2]] # before[rc[1]][rc[2]]}

C18_SpawnPlacesOneTile ==
    [][op' = "SPAWN" =>
         IF EmptyCells(board) # {}
         THEN /\ result' # None
              /\ \E sp \in {result'[1]} :
                   /\ board[sp[1]][sp[2]] = 0
                   /\ sp[3] \in {2, 4}
                   /\ board'[sp[1]][sp[2]] = sp[3]
                   /\ ChangedCells(board, board') = {<<sp[1], sp[2]>>}
                   /\ last_spawn' = sp
         ELSE /\ result' = None
              /\ board' = board
              /\ last_spawn' = last_spawn]_vars

C18_Witness ==
    /\ op = "SPAWN"
    /\ result # None
    /\ result[1][3] = 4
    /\ Cardinality(EmptyCells(board)) = 1
    /\ board[result[1][1]][result[1][2]] = 4

(***************************************************************************)
(* The movement trace of a slide.                                          *)
(***************************************************************************)
Trace == Outcome.moves

StartingAt(rc) == {i \in 1 .. Len(Trace) : Trace[i].start = rc}

EndingAt(rc) == {i \in 1 .. Len(Trace) : Trace[i].end = rc}

RECURSIVE ValueSum(_)
ValueSum(S) ==
    IF S = {} THEN 0
    ELSE LET i == CHOOSE x \in S : TRUE
         IN  Trace[i].value + ValueSum(S \ {i})

(* How far a cell is from the edge the slide goes to.                      *)
FromEdge(rc, direction) ==
    CASE direction = "LEFT"  -> rc[2]
      [] direction = "RIGHT" -> GRID_SIZE - 1 - rc[2]
      [] direction = "UP"    -> rc[1]
      [] direction = "DOWN"  -> GRID_SIZE - 1 - rc[1]

SameLine(a, b, direction) ==
    IF direction \in {"LEFT", "RIGHT"} THEN a[1] = b[1] ELSE a[2] = b[2]

(***************************************************************************)
(* C19: the movement trace is complete and consistent in the four          *)
(* directions.  Every non-zero cell of the grid before the move starts     *)
(* exactly one TileMove, carrying its value, and no TileMove starts at an  *)
(* empty cell; an unmerged move is alone at its end cell, merged moves     *)
(* come in pairs of equal value at one end cell; each cell of the slid     *)
(* grid is the sum of the values of the moves ending there; every end cell *)
(* is in the row (LEFT, RIGHT) or column (UP, DOWN) of its start and not   *)
(* farther from the target edge.                                           *)
(***************************************************************************)
C19_TraceCompleteAndConsistent ==
    Slid =>
        /\ \A rc \in Idx \X Idx :
             /\ Cardinality(StartingAt(rc)) = IF board[rc[1]][rc[2]] # 0 THEN 1 ELSE 0
             /\ \A i \in StartingAt(rc) : Trace[i].value = board[rc[1]][rc[2]]
             /\ Outcome.board[rc[1]][rc[2]] = ValueSum(EndingAt(rc))
        /\ \A i \in 1 .. Len(Trace) :
             /\ Trace[i].start \in Idx \X Idx
             /\ Trace[i].end \in Idx \X Idx
             /\ ~Trace[i].merged => EndingAt(Trace[i].end) = {i}
             /\ Trace[i].merged =>
                  /\ Cardinality(EndingAt(Trace[i].end)) = 2
                  /\ \A j \in EndingAt(Trace[i].end) :
                       /\ Trace[j].merged
                       /\ Trace[j].value = Trace[i].value
             /\ SameLine(Trace[i].start, Trace[i].end, op)
             /\ FromEdge(Trace[i].end, op) <= FromEdge(Trace[i].start, op)

C19_Witness ==
    /\ Slid
    /\ op = "RIGHT"
    /\ \E i \in 1 .. Len(Trace) : \E j \in 1 .. Len(Trace) :
         /\ i # j
         /\ Trace[i].merged
         /\ Trace[j].merged
         /\ Trace[i].end = Trace[j].end
         /\ Trace[i].start # Trace[i].end
         /\ Trace[j].start # Trace[j].end
    /\ \E i \in 1 .. Len(Trace) : ~Trace[i].merged /\ Trace[i].start = Trace[i].end
    /\ \E i \in 1 .. Len(Trace) : ~Trace[i].merged /\ Trace[i].start # Trace[i].end

(***************************************************************************)
(* C20: in every state of the game, after any resets and moves, the grid   *)
(* is 4 by 4 and every cell is 0 or a power of two that is at least 2.     *)
(***************************************************************************)
RECURSIVE IsPowerOfTwo(_)
IsPowerOfTwo(v) ==
    /\ v >= 2
    /\ \/ v = 2
       \/ v % 2 = 0 /\ IsPowerOfTwo(v \div 2)

C20_GridOfPowersOfTwo ==
    /\ GRID_SIZE = 4
    /\ DOMAIN board = 0 .. 3
    /\ \A r \in DOMAIN board :
         /\ DOMAIN board[r] = 0 .. 3
         /\ \A c \in DOMAIN board[r] :
              board[r][c] = 0 \/ IsPowerOfTwo(board[r][c])

C20_Witness ==
    /\ Accepted
    /\ Outcome.score_gain > 0
    /\ \E r \in Idx : \E c \in Idx : board[r][c] = 2048
    /\ \E r \in Idx : \E c \in Idx : board[r][c] = 0
    /\ C20_GridOfPowersOfTwo

(***************************************************************************)
(* The moves handed to the move animation by an accepted move.             *)
(***************************************************************************)
Handed == IF move_animation = None THEN << >> ELSE move_animation[1]

AcceptedSlide == Slid /\ Outcome.moved

(***************************************************************************)
(* C21 as stated: for every accepted move, the movements handed to the     *)
(* move animation contain no TileMove whose start cell equals its end      *)
(* cell.                                                                   *)
(***************************************************************************)
C21_Original_NoZeroLengthMoveAnimated ==
    AcceptedSlide =>
        \A i \in 1 .. Len(Handed) : Handed[i].start # Handed[i].end

(***************************************************************************)
(* C21, amended: for every accepted move, the movements handed to the move *)
(* animation contain no unmerged TileMove whose start cell equals its end  *)
(* cell; a merged TileMove that stays in its cell (the resting partner of  *)
(* a merge) is handed over.  The moves handed over are those of the trace  *)
(* that change cell or merge, in the order of the trace.                   *)
(***************************************************************************)
C21_NoUnmergedZeroLengthMoveAnimated ==
    AcceptedSlide =>
        /\ move_animation # None
        /\ \A i \in 1 .. Len(Handed) :
             Handed[i].start # Handed[i].end \/ Handed[i].merged
        /\ \A i \in 1 .. Len(Trace) :
             (\E j \in 1 .. Len(Handed) : Handed[j] = Trace[i])
                 <=> (Trace[i].start # Trace[i].end \/ Trace[i].merged)
        /\ Len(Handed) <= Len(Trace)

C21_Witness ==
    /\ AcceptedSlide
    /\ \E i \in 1 .. Len(Trace) :
         /\ ~Trace[i].merged
         /\ Trace[i].start = Trace[i].end
    /\ \E j \in 1 .. Len(Handed) :
         /\ Handed[j].merged
         /\ Handed[j].start = Handed[j].end
    /\ Len(Handed) < Len(Trace)

(***************************************************************************)
(* The number of merges of a slide, from the rules: the tiles of each line *)
(* along the direction, paired greedily from the target edge.              *)
(***************************************************************************)
RECURSIVE PairCount(_)
PairCount(t) ==
    IF Len(t) < 2 THEN 0
    ELSE IF t[1] = t[2]
         THEN 1 + PairCount(SubSeq(t, 3, Len(t)))
         ELSE PairCount(Tail(t))

MergeCount(b, direction) ==
    SumOver([k \in Idx |-> PairCount(TilesOf(LineToward(b, direction, k)))],
            GRID_SIZE - 1)

(***************************************************************************)
(* C22: every accepted move spawns a tile.  Whenever a slide changes the   *)
(* grid the slid grid has an empty cell, so the spawn succeeds: the        *)
(* outcome's spawn is never absent, and the grid after the move holds as   *)
(* many non-zero cells as before, minus the merges, plus one.              *)
(***************************************************************************)
C22_AcceptedMoveSpawns ==
    [][(MoveCommanded /\ op' \in DIRECTIONS /\ SlideChanges(board, op')) =>
         \E merges \in {MergeCount(board, op')} :
             /\ result' # None
             /\ result'[1].spawn # None
             /\ last_spawn' = result'[1].spawn
             /\ board'[result'[1].spawn[1]][result'[1].spawn[2]] = result'[1].spawn[3]
             /\ Cardinality(TileCells(board)) - merges < GRID_SIZE * GRID_SIZE
             /\ Cardinality(TileCells(board')) =
                  Cardinality(TileCells(board)) - merges + 1]_vars

C22_Witness ==
    /\ Accepted
    /\ Outcome.spawn # None
    /\ Outcome.score_gain > 0
    /\ EmptyCells(board) = {}
    /\ ~game_over

(***************************************************************************)
(* The values of a grid as a multiset, and the merges that turn the        *)
(* multiset of the grid before a slide into that of the slid grid: of each *)
(* value v, counted upwards from 2, the pairs v, v replaced by one 2v.     *)
(***************************************************************************)
CountOf(b, v) == Cardinality({rc \in Idx \X Idx : b[rc[1]][rc[2]] = v})

SlideValues == {2 ^ k : k \in 1 .. (MaxExp + 1)}

RECURSIVE PairsMerged(_)
PairsMerged(v) ==
    IF v < 2 THEN 0
    ELSE (CountOf(board, v) + PairsMerged(v \div 2) - CountOf(Outcome.board, v)) \div 2

RECURSIVE SumOfSet(_)
SumOfSet(S) ==
    IF S = {} THEN 0
    ELSE LET v == CHOOSE x \in S : TRUE
         IN  PairsMerged(v) * (v + v) + SumOfSet(S \ {v})

(***************************************************************************)
(* C23: a slide by itself preserves the board total.  For every grid and   *)
(* every direction the cells of the engine's grid (before any spawn) sum   *)
(* to what the cells of the input grid sum to, and the multiset of values  *)
(* changes only by pairs of equal tiles v, v of the input replaced by one  *)
(* tile 2v (whose values are the gain).                                    *)
(***************************************************************************)
C23_SlidePreservesTotal ==
    Slid =>
        /\ BoardSum(Outcome.board) = BoardSum(board)
        /\ CountOf(Outcome.board, 0) >= CountOf(board, 0)
        /\ \A r \in Idx : \A c \in Idx : Outcome.board[r][c] \in SlideValues \cup {0}
        /\ \A v \in SlideValues :
             /\ PairsMerged(v) >= 0
             /\ 2 * PairsMerged(v) <= CountOf(board, v)
             /\ CountOf(Outcome.board, v) =
                  CountOf(board, v) - 2 * PairsMerged(v) + PairsMerged(v \div 2)
        /\ Outcome.score_gain = SumOfSet(SlideValues)
        /\ CountOf(Outcome.board, 0) - CountOf(board, 0) = MergeCount(board, op)

C23_Witness ==
    /\ Slid
    /\ op = "UP"
    /\ Outcome.moved
    /\ PairsMerged(2) > 0
    /\ PairsMerged(4) > 1
    /\ BoardSum(board) = BoardSum(Outcome.board)
    /\ BoardSum(board) > Outcome.score_gain

=============================================================================
